---- MODULE Spec2Model ----
(***************************************************************************)
(* Model of mixid's POST /identify handler (src/main.py).                  *)
(*                                                                         *)
(* One request walks through: validation, temporary directory, download,   *)
(* source lookup, mp3 conversion, split, segment listing, then one         *)
(* recognition call per segment with the reduction done in the same loop,  *)
(* and the final return.  The outside world (yt-dlp, ffmpeg, the AudD      *)
(* service) is nondeterministic.                                           *)
(*                                                                         *)
(* JSON values are tagged records, so that Python's truthiness, the        *)
(* presence of a .get method and pydantic's validation can be decided:     *)
(*   [k |-> "null"]            None / null                                 *)
(*   [k |-> "str",  s |-> ..]  a string                                    *)
(*   [k |-> "list", n |-> ..]  a list of n elements                        *)
(*   [k |-> "obj",  f |-> ..]  an object, f a function from keys to values *)
(* The en dash of the track title (U+2013) is written "-" here, since the  *)
(* module is ASCII.                                                        *)
(***************************************************************************)
EXTENDS Integers, Sequences, FiniteSets, TLC

VARIABLES
    SEGMENT_SECONDS,  \* module global, read from the environment at import
    MAX_SEGMENTS,     \* module global
    AUDD_API_TOKEN,   \* module global: None, or a string
    pc,               \* per request: position in identify()
    url,              \* per request: req.url
    tmp,              \* per request: the TemporaryDirectory: "none", "exists", "released"
    segments,         \* per request: sorted list of segment files (by number)
    segs,             \* per request: segments[:MAX_SEGMENTS]
    idx,              \* per request: loop index of the next segment
    results,          \* per request: the list of IdentifyResult built so far
    last_title,       \* per request: None or the last emitted track title
    calls,            \* per request: external operations invoked, in order
    resps,            \* per request: responses of the recognition calls, in order
    status,           \* per request: HTTP status of the outcome (0: none yet)
    detail,           \* per request: detail of the error outcome
    returned,         \* per request: the list returned to the caller
    tsArgs,           \* arguments of a direct ts_from_idx call
    tsOut             \* its result

vars == << SEGMENT_SECONDS, MAX_SEGMENTS, AUDD_API_TOKEN, pc, url, tmp, segments,
           segs, idx, results, last_title, calls, resps, status, detail, returned,
           tsArgs, tsOut >>

config == << SEGMENT_SECONDS, MAX_SEGMENTS, AUDD_API_TOKEN >>
tsVars == << tsArgs, tsOut >>

----------------------------------------------------------------------------
(* Bounds *)

MaxSeg == 4        \* most segment files a split produces
MaxTsIdx == 40     \* largest index of a direct ts_from_idx call
MaxSegConc == 2    \* most segment files of a split when two requests run

Min(a, b) == IF a < b THEN a ELSE b

----------------------------------------------------------------------------
(* JSON values and the Python operations the handler applies to them *)

None == [k |-> "null"]
Str(s) == [k |-> "str", s |-> s]
Lst(n) == [k |-> "list", n |-> n]
Obj(f) == [k |-> "obj", f |-> f]
EmptyObj == Obj(<<>>)

\* bool(v): None, "", [] and {} are falsy
Truthy(v) ==
    CASE v.k = "null" -> FALSE
      [] v.k = "str"  -> v.s # ""
      [] v.k = "list" -> v.n > 0
      [] v.k = "obj"  -> DOMAIN v.f # {}

\* v has a .get method: only dicts do; otherwise v.get raises AttributeError
HasGet(v) == v.k = "obj"

\* v.get(key, default), for v a dict
Get(v, key, default) == IF key \in DOMAIN v.f THEN v.f[key] ELSE default

----------------------------------------------------------------------------
(* ts_from_idx *)

Digit(d) == SubSeq("0123456789", d + 1, d + 1)

\* str(n) for n >= 0
RECURSIVE Dec(_)
Dec(n) == IF n < 10 THEN Digit(n) ELSE Dec(n \div 10) \o Digit(n % 10)

\* f"{n:02}": zero-padded to a minimum width of two
Pad2(n) == IF Len(Dec(n)) < 2 THEN "0" \o Dec(n) ELSE Dec(n)

ts_from_idx_hours(i, step) ==
    LET total == i * step
        mm == (total \div 60) % 60
        ss == total % 60
    IN  Pad2(mm) \o ":" \o Pad2(ss)

ts_from_idx(i, step) ==
    LET total == i * step
        mm == total \div 60
        ss == total % 60
    IN  Pad2(mm) \o ":" \o Pad2(ss)

----------------------------------------------------------------------------
(* Inputs *)

Requests == {"r1", "r2"}
Solo == {"r1"}

\* req.url: empty, 7 characters, 8 characters
Urls == {"", "http://", "http://a"}

\* os.getenv("AUDD_API_TOKEN"): unset, set to the empty string, set
TokenValues == {None, Str(""), Str("tok")}

SegmentSecondsValues == {30, 3000}
MaxSegmentsValues == {2, MaxSeg}

\* result objects of a recognition response
ResA      == Obj([artist |-> Str("a"), title |-> Str("b - c")])
ResA2     == Obj([artist |-> Str("a - b"), title |-> Str("c"),
                  spotify |-> Obj([external_urls |-> Obj([spotify |-> Str("sp:abc")])])])
ResB      == Obj([artist |-> Str("d"), title |-> Str("e"), spotify |-> Str("oops")])
ResNoTitle  == Obj([artist |-> Str("a"), title |-> Str("")])
ResNoArtist == Obj([title |-> Str("e"), spotify |-> None])
ResBadLink  == Obj([artist |-> Str("d"), title |-> Str("e"),
                    spotify |-> Obj([external_urls |-> Obj([spotify |-> Lst(1)])])])

\* what requests.post(...) followed by r.json() can give for one segment
Raised(why) == [net |-> why]
Json(payload) == [net |-> "json", payload |-> payload]

Responses ==
    { Raised("transport"), Raised("badbody"),
      Json(Lst(0)),                                   \* body is a JSON array
      Json(Obj([status |-> Str("success"), result |-> None])),
      Json(Obj([status |-> Str("error")])),
      Json(Obj([result |-> Str("x")])),               \* result is not an object
      Json(Obj([result |-> ResNoTitle])),
      Json(Obj([result |-> ResNoArtist])),
      Json(Obj([result |-> ResA])),
      Json(Obj([result |-> ResA2])),
      Json(Obj([result |-> ResB])),
      Json(Obj([result |-> ResBadLink])) }

----------------------------------------------------------------------------
(* The pieces of identify() *)

ValidateRequestTokenFirst(u, tok) ==
    IF ~Truthy(tok)
    THEN [ok |-> FALSE, status |-> 500, detail |-> "Missing AUDD_API_TOKEN"]
    ELSE IF u = "" \/ Len(u) < 8
    THEN [ok |-> FALSE, status |-> 400, detail |-> "Invalid URL"]
    ELSE [ok |-> TRUE, status |-> 0, detail |-> ""]

ValidateRequestAll500(u, tok) ==
    IF u = "" \/ Len(u) < 8
    THEN [ok |-> FALSE, status |-> 500, detail |-> "Invalid URL"]
    ELSE IF ~Truthy(tok)
    THEN [ok |-> FALSE, status |-> 500, detail |-> "Missing AUDD_API_TOKEN"]
    ELSE [ok |-> TRUE, status |-> 0, detail |-> ""]

\* lines 54-57: the two checks made before anything else
ValidateRequest(u, tok) ==
    IF u = "" \/ Len(u) < 8
    THEN [ok |-> FALSE, status |-> 400, detail |-> "Invalid URL"]
    ELSE IF ~Truthy(tok)
    THEN [ok |-> FALSE, status |-> 500, detail |-> "Missing AUDD_API_TOKEN"]
    ELSE [ok |-> TRUE, status |-> 0, detail |-> ""]

\* sorted(glob("seg_*.mp3")) after a split into n files: seg_00000 .. seg_(n-1)
SegmentFiles(n) == [i \in 1..n |-> i - 1]

NoSegmentsNever(s) == FALSE

\* `if not segments`
NoSegments(s) == s = <<>>

TruncateNone(s, m) == s

\* segments[:m], m >= 0
Truncate(s, m) == SubSeq(s, 1, Min(m, Len(s)))

\* f"{artist} - {title}", both strings
track_title(artist, title) == artist.s \o " - " \o title.s

\* result.get("spotify", {}).get("external_urls", {}).get("spotify"), None when
\* any of the .get calls raises
SpotifyUrl(result) ==
    LET s1 == Get(result, "spotify", EmptyObj)
    IN  IF ~HasGet(s1) THEN None
        ELSE LET s2 == Get(s1, "external_urls", EmptyObj)
             IN  IF ~HasGet(s2) THEN None ELSE Get(s2, "spotify", None)

\* pydantic accepts None or a string for `spotify: Optional[str]`
ValidSpotify(v) == v.k \in {"null", "str"}

\* The loop state is [crash, results, last_title]; crash: an exception left the loop.
Crash(st) == [st EXCEPT !.crash = TRUE]

OnRequestFailedAbort(st) == [st EXCEPT !.crash = TRUE]

\* except Exception: log, continue
OnRequestFailed(st) == st

OnNoMatchReset(st) == [st EXCEPT !.last_title = None]

\* the `continue` of `if not result` and of `if not artist or not title`
OnNoMatch(st) == st

IsDuplicateNever(tt, st) == FALSE

IsDuplicateAny(tt, st) == \E j \in DOMAIN st.results : st.results[j].track = tt

\* track_title == last_title
IsDuplicate(tt, st) == Str(tt) = st.last_title

EmitPrepend(i, step, tt, link, st) ==
    IF ValidSpotify(link)
    THEN [st EXCEPT !.last_title = Str(tt),
                    !.results = << [time |-> ts_from_idx(i, step),
                                    track |-> tt, spotify |-> link] >> \o @]
    ELSE [st EXCEPT !.last_title = Str(tt), !.crash = TRUE]

\* lines 187-205: remember the title, extract the link, append the entry
Emit(i, step, tt, link, st) ==
    IF ValidSpotify(link)
    THEN [st EXCEPT !.last_title = Str(tt),
                    !.results = Append(@, [time |-> ts_from_idx(i, step),
                                           track |-> tt, spotify |-> link])]
    ELSE [st EXCEPT !.last_title = Str(tt), !.crash = TRUE]

ProcessTitleUnchecked(resp, i, step, st) ==
    IF resp.net # "json" THEN OnRequestFailed(st)
    ELSE IF ~HasGet(resp.payload) THEN Crash(st)
    ELSE LET result == Get(resp.payload, "result", None)
         IN  IF ~Truthy(result) THEN OnNoMatch(st)
             ELSE IF ~HasGet(result) THEN Crash(st)
             ELSE LET artist == Get(result, "artist", None)
                      title  == Get(result, "title", None)
                  IN  IF ~Truthy(artist) \/ title.k # "str" THEN OnNoMatch(st)
                      ELSE LET tt == track_title(artist, title)
                           IN  IF IsDuplicate(tt, st) THEN st
                               ELSE Emit(i, step, tt, SpotifyUrl(result), st)

\* One iteration of the loop body after the call returned resp (lines 170-205)
Process(resp, i, step, st) ==
    IF resp.net # "json" THEN OnRequestFailed(st)
    ELSE IF ~HasGet(resp.payload) THEN Crash(st)
    ELSE LET result == Get(resp.payload, "result", None)
         IN  IF ~Truthy(result) THEN OnNoMatch(st)
             ELSE IF ~HasGet(result) THEN Crash(st)
             ELSE LET artist == Get(result, "artist", None)
                      title  == Get(result, "title", None)
                  IN  IF ~Truthy(artist) \/ ~Truthy(title) THEN OnNoMatch(st)
                      ELSE LET tt == track_title(artist, title)
                           IN  IF IsDuplicate(tt, st) THEN st
                               ELSE Emit(i, step, tt, SpotifyUrl(result), st)

\* The loop of lines 154-205 over the first k responses of rs, from fresh locals
RECURSIVE Alone(_, _, _)
Alone(rs, k, step) ==
    IF k = 0 THEN [crash |-> FALSE, results |-> <<>>, last_title |-> None]
    ELSE LET prev == Alone(rs, k - 1, step)
         IN  IF prev.crash THEN prev ELSE Process(rs[k], k - 1, step, prev)

Sentinel == [time |-> "00:00", track |-> "No matches found", spotify |-> None]

ReturnValueRaw(res) == res

\* results or [IdentifyResult(time="00:00", track="No matches found")]
ReturnValue(res) == IF res = <<>> THEN <<Sentinel>> ELSE res

----------------------------------------------------------------------------
(* Actions: one request r *)

loopVars == << segments, segs, idx, results, last_title >>

Op(name) == [op |-> name]
RecognizeOp(seg) == [op |-> "recognize", seg |-> seg]

RaiseLeak(r, code, msg) ==
    /\ pc' = [pc EXCEPT ![r] = "Failed"]
    /\ status' = [status EXCEPT ![r] = code]
    /\ detail' = [detail EXCEPT ![r] = msg]
    /\ UNCHANGED tmp

\* raise HTTPException(code, msg), or an uncaught exception (500); leaving the
\* `with` block removes the temporary directory
Raise(r, code, msg) ==
    /\ pc' = [pc EXCEPT ![r] = "Failed"]
    /\ status' = [status EXCEPT ![r] = code]
    /\ detail' = [detail EXCEPT ![r] = msg]
    /\ tmp' = [tmp EXCEPT ![r] = IF @ = "exists" THEN "released" ELSE @]

Goto(r, where) ==
    /\ pc' = [pc EXCEPT ![r] = where]
    /\ UNCHANGED << status, detail, tmp >>

\* lines 54-57
Validate(r) ==
    /\ pc[r] = "Created"
    /\ LET v == ValidateRequest(url[r], AUDD_API_TOKEN)
       IN  IF v.ok THEN Goto(r, "Setup") ELSE Raise(r, v.status, v.detail)
    /\ UNCHANGED << config, url, loopVars, calls, resps, returned, tsVars >>

\* lines 59-93: imports, the temporary directory, the download options
Setup(r) ==
    /\ pc[r] = "Setup"
    /\ pc' = [pc EXCEPT ![r] = "Download"]
    /\ tmp' = [tmp EXCEPT ![r] = "exists"]
    /\ calls' = [calls EXCEPT ![r] = Append(@, Op("mkdtemp"))]
    /\ UNCHANGED << config, url, loopVars, resps, status, detail, returned, tsVars >>

\* lines 95-101
Download(r) ==
    /\ pc[r] = "Download"
    /\ calls' = [calls EXCEPT ![r] = Append(@, Op("download"))]
    /\ \E ok \in BOOLEAN :
          IF ok THEN Goto(r, "FindSource") ELSE Raise(r, 502, "Download failed")
    /\ UNCHANGED << config, url, loopVars, resps, returned, tsVars >>

\* lines 104-110
FindSource(r) ==
    /\ pc[r] = "FindSource"
    /\ \E found \in BOOLEAN :
          IF found THEN Goto(r, "Convert")
          ELSE Raise(r, 500, "No downloaded file found")
    /\ UNCHANGED << config, url, loopVars, calls, resps, returned, tsVars >>

\* lines 113-128
Convert(r) ==
    /\ pc[r] = "Convert"
    /\ calls' = [calls EXCEPT ![r] = Append(@, Op("convert"))]
    /\ \E ok \in BOOLEAN :
          IF ok THEN Goto(r, "Split") ELSE Raise(r, 500, "ffmpeg convert failed")
    /\ UNCHANGED << config, url, loopVars, resps, returned, tsVars >>

\* lines 131-156: split, list the segment files, start the loop
Split(r) ==
    /\ pc[r] = "Split"
    /\ calls' = [calls EXCEPT ![r] = Append(@, Op("split"))]
    /\ \E ok \in BOOLEAN, n \in 0..MaxSeg :
          IF ~ok
          THEN /\ n = 0
               /\ Raise(r, 500, "ffmpeg split failed")
               /\ UNCHANGED loopVars
          ELSE /\ segments' = [segments EXCEPT ![r] = SegmentFiles(n)]
               /\ IF NoSegments(segments'[r])
                  THEN /\ Raise(r, 500, "No segments created")
                       /\ UNCHANGED << segs, idx, results, last_title >>
                  ELSE /\ Goto(r, "Classify")
                       /\ segs' = [segs EXCEPT ![r] = Truncate(segments'[r], MAX_SEGMENTS)]
                       /\ idx' = [idx EXCEPT ![r] = 0]
                       /\ results' = [results EXCEPT ![r] = <<>>]
                       /\ last_title' = [last_title EXCEPT ![r] = None]
    /\ UNCHANGED << config, url, resps, returned, tsVars >>

\* lines 158-169: the next segment is posted to the recognition service
Recognize(r) ==
    /\ pc[r] = "Classify"
    /\ idx[r] < Len(segs[r])
    /\ calls' = [calls EXCEPT ![r] = Append(@, RecognizeOp(segs[r][idx[r] + 1]))]
    /\ Goto(r, "Await")
    /\ UNCHANGED << config, url, loopVars, resps, returned, tsVars >>

HandleRetry(r) ==
    /\ pc[r] = "Await"
    /\ \E resp \in Responses :
          LET st == Process(resp, idx[r], SEGMENT_SECONDS,
                            [crash |-> FALSE, results |-> results[r],
                             last_title |-> last_title[r]])
          IN  /\ resps' = [resps EXCEPT ![r] = Append(@, resp)]
              /\ results' = [results EXCEPT ![r] = st.results]
              /\ last_title' = [last_title EXCEPT ![r] = st.last_title]
              /\ IF st.crash
                 THEN /\ Raise(r, 500, "Internal Server Error")
                      /\ UNCHANGED idx
                 ELSE /\ Goto(r, "Classify")
                      /\ idx' = [idx EXCEPT ![r] = IF resp.net = "json" THEN @ + 1 ELSE @]
    /\ UNCHANGED << config, url, segments, segs, calls, returned, tsVars >>

HandleSharedResults(r) ==
    /\ pc[r] = "Await"
    /\ \E resp \in Responses :
          LET st == Process(resp, idx[r], SEGMENT_SECONDS,
                            [crash |-> FALSE, results |-> results[r],
                             last_title |-> last_title[r]])
          IN  /\ resps' = [resps EXCEPT ![r] = Append(@, resp)]
              /\ results' = [q \in Requests |-> st.results]
              /\ last_title' = [last_title EXCEPT ![r] = st.last_title]
              /\ IF st.crash
                 THEN /\ Raise(r, 500, "Internal Server Error")
                      /\ UNCHANGED idx
                 ELSE /\ Goto(r, "Classify")
                      /\ idx' = [idx EXCEPT ![r] = @ + 1]
    /\ UNCHANGED << config, url, segments, segs, calls, returned, tsVars >>

HandleSharedLastTitle(r) ==
    /\ pc[r] = "Await"
    /\ \E resp \in Responses :
          LET st == Process(resp, idx[r], SEGMENT_SECONDS,
                            [crash |-> FALSE, results |-> results[r],
                             last_title |-> last_title[r]])
          IN  /\ resps' = [resps EXCEPT ![r] = Append(@, resp)]
              /\ results' = [results EXCEPT ![r] = st.results]
              /\ last_title' = [q \in Requests |-> st.last_title]
              /\ IF st.crash
                 THEN /\ Raise(r, 500, "Internal Server Error")
                      /\ UNCHANGED idx
                 ELSE /\ Goto(r, "Classify")
                      /\ idx' = [idx EXCEPT ![r] = @ + 1]
    /\ UNCHANGED << config, url, segments, segs, calls, returned, tsVars >>

\* lines 170-205: the call returns (or raises) and the loop body runs
Handle(r) ==
    /\ pc[r] = "Await"
    /\ \E resp \in Responses :
          LET st == Process(resp, idx[r], SEGMENT_SECONDS,
                            [crash |-> FALSE, results |-> results[r],
                             last_title |-> last_title[r]])
          IN  /\ resps' = [resps EXCEPT ![r] = Append(@, resp)]
              /\ results' = [results EXCEPT ![r] = st.results]
              /\ last_title' = [last_title EXCEPT ![r] = st.last_title]
              /\ IF st.crash
                 THEN /\ Raise(r, 500, "Internal Server Error")
                      /\ UNCHANGED idx
                 ELSE /\ Goto(r, "Classify")
                      /\ idx' = [idx EXCEPT ![r] = @ + 1]
    /\ UNCHANGED << config, url, segments, segs, calls, returned, tsVars >>

\* line 207, reached when the loop is exhausted
Return(r) ==
    /\ pc[r] = "Classify"
    /\ idx[r] = Len(segs[r])
    /\ returned' = [returned EXCEPT ![r] = ReturnValue(results[r])]
    /\ pc' = [pc EXCEPT ![r] = "Completed"]
    /\ status' = [status EXCEPT ![r] = 200]
    /\ tmp' = [tmp EXCEPT ![r] = "released"]
    /\ UNCHANGED << config, url, loopVars, calls, resps, detail, tsVars >>

Step(r) ==
    \/ Validate(r)
    \/ Setup(r)
    \/ Download(r)
    \/ FindSource(r)
    \/ Convert(r)
    \/ Split(r)
    \/ Recognize(r)
    \/ Handle(r)
    \/ Return(r)

----------------------------------------------------------------------------
(* One request *)

Idle(v) == [r \in Requests |-> v]

Init ==
    /\ SEGMENT_SECONDS \in SegmentSecondsValues
    /\ MAX_SEGMENTS \in MaxSegmentsValues
    /\ AUDD_API_TOKEN \in TokenValues
    /\ pc = [r \in Requests |-> IF r \in Solo THEN "Created" ELSE "Idle"]
    /\ url \in [Requests -> Urls]
    /\ \A r \in Requests \ Solo : url[r] = ""
    /\ tmp = Idle("none")
    /\ segments = Idle(<<>>)
    /\ segs = Idle(<<>>)
    /\ idx = Idle(0)
    /\ results = Idle(<<>>)
    /\ last_title = Idle(None)
    /\ calls = Idle(<<>>)
    /\ resps = Idle(<<>>)
    /\ status = Idle(0)
    /\ detail = Idle("")
    /\ returned = Idle(<<>>)
    /\ tsArgs = << 0, 30 >>
    /\ tsOut = ""

Next == \E r \in Solo : Step(r)

Spec == Init /\ [][Next]_vars

----------------------------------------------------------------------------
(* Two requests served concurrently by one process, in any interleaving *)

InitConc ==
    /\ SEGMENT_SECONDS = 30
    /\ MAX_SEGMENTS = 2
    /\ AUDD_API_TOKEN = Str("tok")
    /\ pc = Idle("Created")
    /\ url = Idle("http://a")
    /\ tmp = Idle("none")
    /\ segments = Idle(<<>>)
    /\ segs = Idle(<<>>)
    /\ idx = Idle(0)
    /\ results = Idle(<<>>)
    /\ last_title = Idle(None)
    /\ calls = Idle(<<>>)
    /\ resps = Idle(<<>>)
    /\ status = Idle(0)
    /\ detail = Idle("")
    /\ returned = Idle(<<>>)
    /\ tsArgs = << 0, 30 >>
    /\ tsOut = ""

\* the recordings of this specification split into at most MaxSegConc segments
NextConc ==
    /\ \E r \in Requests : Step(r)
    /\ \A q \in Requests : Len(segments'[q]) <= MaxSegConc

SpecConc == InitConc /\ [][NextConc]_vars

----------------------------------------------------------------------------
(* ts_from_idx called directly *)

TsSteps == {1, 30, 60, 3000}

InitTs ==
    /\ SEGMENT_SECONDS = 30
    /\ MAX_SEGMENTS = 100
    /\ AUDD_API_TOKEN = None
    /\ pc = Idle("Idle")
    /\ url = Idle("")
    /\ tmp = Idle("none")
    /\ segments = Idle(<<>>)
    /\ segs = Idle(<<>>)
    /\ idx = Idle(0)
    /\ results = Idle(<<>>)
    /\ last_title = Idle(None)
    /\ calls = Idle(<<>>)
    /\ resps = Idle(<<>>)
    /\ status = Idle(0)
    /\ detail = Idle("")
    /\ returned = Idle(<<>>)
    /\ tsArgs \in (0..MaxTsIdx) \X TsSteps
    /\ tsOut = ""

TsCall ==
    /\ tsOut = ""
    /\ tsOut' = ts_from_idx(tsArgs[1], tsArgs[2])
    /\ UNCHANGED << config, pc, url, tmp, loopVars, calls, resps, status, detail,
                    returned, tsArgs >>

NextTs == TsCall

SpecTs == InitTs /\ [][NextTs]_vars

----------------------------------------------------------------------------
(* Vocabulary of the properties *)

\* the request is inside the loop or has returned (no exception left the loop)
Running(r) == pc[r] \in {"Classify", "Await", "Completed"}

\* a response carrying a result object with a non-empty artist and title
IsMatch(resp) ==
    /\ resp.net = "json"
    /\ HasGet(resp.payload)
    /\ LET result == Get(resp.payload, "result", None)
       IN  /\ HasGet(result)
           /\ Truthy(Get(result, "artist", None))
           /\ Truthy(Get(result, "title", None))

TitleOf(resp) ==
    LET result == Get(resp.payload, "result", None)
    IN  Get(result, "artist", None).s \o " - " \o Get(result, "title", None).s

\* The entries expected after the first k responses of rs, as [i, track]: a match
\* at index i is listed iff its title differs from the last listed title.
RECURSIVE Expected(_, _)
Expected(rs, k) ==
    IF k = 0 THEN <<>>
    ELSE LET prev == Expected(rs, k - 1)
             x == rs[k]
         IN  IF IsMatch(x) /\ (prev = <<>> \/ prev[Len(prev)].track # TitleOf(x))
             THEN Append(prev, [i |-> k - 1, track |-> TitleOf(x)])
             ELSE prev

Tracks(es) == [j \in 1..Len(es) |-> es[j].track]
Times(es) == [j \in 1..Len(es) |-> es[j].time]

\* the segment numbers sent to the recognition service, in order
Sent(r) ==
    LET rec == SelectSeq(calls[r], LAMBDA c : c.op = "recognize")
    IN  [j \in 1..Len(rec) |-> rec[j].seg]

RespA == Json(Obj([result |-> ResA]))
RespA2 == Json(Obj([result |-> ResA2]))
RespB == Json(Obj([result |-> ResB]))

----------------------------------------------------------------------------
(* Properties *)

\* C1: in the loop, a matched segment at index i adds an entry iff its title
\* differs from the title of the last entry added (or none was added yet), and
\* the entry carries the time of index i; a title that recurs after another one
\* is listed again.
C1_EmitOnTitleChange ==
    \A r \in Requests :
        Running(r) =>
            LET e == Expected(resps[r], Len(resps[r]))
            IN  /\ Tracks(results[r]) = Tracks(e)
                /\ Times(results[r]) =
                       [j \in 1..Len(e) |-> ts_from_idx(e[j].i, SEGMENT_SECONDS)]

\* A, A, B, A has given A@0, B@2, A@3
C1_Witness ==
    \E r \in Requests :
        /\ SEGMENT_SECONDS = 30
        /\ resps[r] = << RespA, RespA, RespB, RespA >>
        /\ Tracks(results[r]) = << "a - b - c", "d - e", "a - b - c" >>
        /\ Times(results[r]) = << "00:00", "01:00", "01:30" >>

\* C2: responses without a match (failed calls included) add no entry and leave
\* the dedup state alone: the titles listed are those listed for the matching
\* responses alone, last_title is the title of the last entry, and each entry's
\* time is that of its own segment index.
C2_UnmatchedTransparent ==
    \A r \in Requests :
        Running(r) =>
            LET matches == SelectSeq(resps[r], IsMatch)
                e == Expected(resps[r], Len(resps[r]))
            IN  /\ Tracks(results[r]) = Tracks(Expected(matches, Len(matches)))
                /\ last_title[r] = IF results[r] = <<>> THEN None
                                   ELSE Str(results[r][Len(results[r])].track)
                /\ Len(results[r]) = Len(e)
                /\ \A j \in 1..Len(e) :
                       results[r][j].time = ts_from_idx(e[j].i, SEGMENT_SECONDS)

\* A, failed call, A, no match, B has given A@0 and B@4 only
C2_Witness ==
    \E r \in Requests :
        /\ SEGMENT_SECONDS = 30
        /\ Len(resps[r]) = 4
        /\ resps[r][1] = RespA
        /\ resps[r][2] = Raised("transport")
        /\ resps[r][3] = RespA
        /\ resps[r][4] = RespB
        /\ Tracks(results[r]) = << "a - b - c", "d - e" >>
        /\ Times(results[r]) = << "00:00", "01:30" >>

\* C3: a completed request never returns an empty list; it returns exactly the
\* sentinel iff no response was a match, and otherwise no sentinel at all.
C3_SentinelIffNoMatch ==
    \A r \in Requests :
        pc[r] = "Completed" =>
            LET anyMatch == \E k \in DOMAIN resps[r] : IsMatch(resps[r][k])
            IN  /\ returned[r] # <<>>
                /\ (returned[r] = << Sentinel >>) <=> ~anyMatch
                /\ anyMatch => \A j \in DOMAIN returned[r] : returned[r][j] # Sentinel

C3_Witness ==
    \E r \in Requests :
        /\ pc[r] = "Completed"
        /\ Len(resps[r]) >= 2
        /\ returned[r] = << Sentinel >>

\* C4: only the segments 0 .. min(n, MAX_SEGMENTS) - 1 are ever sent to the
\* recognition service, and a completed request has sent each of them.
C4_CapRespected ==
    \A r \in Requests :
        LET last == Min(Len(segments[r]), MAX_SEGMENTS)
        IN  /\ \A j \in DOMAIN Sent(r) : Sent(r)[j] \in 0..(last - 1)
            /\ pc[r] = "Completed" => Sent(r) = [j \in 1..last |-> j - 1]

C4_Witness ==
    \E r \in Requests :
        /\ pc[r] = "Completed"
        /\ Len(segments[r]) > MAX_SEGMENTS
        /\ Sent(r) = << 0, 1 >>

\* C5: once a recognition call has been issued the request cannot end in
\* failure, whatever the service answers.
C5_NoFailureAfterFirstCall ==
    \A r \in Requests : pc[r] = "Failed" => Sent(r) = <<>>

\* C6: a failed download, a missing downloaded file, a failed conversion, a
\* failed split and a split into zero segments each end the request with an
\* error naming the stage, with no recognition call made and nothing returned;
\* the loop is entered only with at least one segment.
DeriveStages == {"Download", "FindSource", "Convert", "Split"}

StageDetails(stage, n) ==
    CASE stage = "Download"   -> {"Download failed"}
      [] stage = "FindSource" -> {"No downloaded file found"}
      [] stage = "Convert"    -> {"ffmpeg convert failed"}
      [] stage = "Split"      -> IF n = 0 THEN {"ffmpeg split failed", "No segments created"}
                                 ELSE {}

C6_DeriveFailureIsFatal ==
    [][\A r \in Requests :
          /\ (pc[r] \in DeriveStages /\ pc'[r] = "Failed") =>
                 /\ detail'[r] \in StageDetails(pc[r], Len(segments'[r]))
                 /\ status'[r] \in 500..599
                 /\ Sent(r)' = <<>>
                 /\ returned'[r] = <<>>
                 /\ results'[r] = <<>>
          /\ (pc[r] \in DeriveStages /\ pc'[r] \notin DeriveStages
                  /\ pc'[r] # "Failed") =>
                 /\ pc[r] = "Split" /\ pc'[r] = "Classify"
                 /\ Len(segments'[r]) > 0
          /\ pc'[r] = "Failed" => returned'[r] = <<>>]_vars

C6_Witness ==
    \E r \in Requests :
        /\ pc[r] = "Failed"
        /\ detail[r] = "No segments created"
        /\ Len(calls[r]) = 4
        /\ returned[r] = <<>>

\* C7: a recognition call that raises (transport error, timeout, unparseable
\* body) adds no entry, is not sent again, and the loop goes on with the next
\* index in the state a clean no-match would have left.
NoMatchResp == Json(Obj([status |-> Str("success"), result |-> None]))

C7_CallFailureIsolated ==
    [][\A r \in Requests :
          /\ (pc[r] = "Await" /\ Len(resps'[r]) = Len(resps[r]) + 1
                  /\ resps'[r][Len(resps'[r])].net # "json") =>
                 LET clean == Process(NoMatchResp, idx[r], SEGMENT_SECONDS,
                                      [crash |-> FALSE, results |-> results[r],
                                       last_title |-> last_title[r]])
                 IN  /\ pc'[r] = "Classify"
                     /\ idx'[r] = idx[r] + 1
                     /\ results'[r] = results[r]
                     /\ results'[r] = clean.results
                     /\ last_title'[r] = clean.last_title
                     /\ ~clean.crash
                     /\ calls'[r] = calls[r]
          /\ (pc[r] = "Classify" /\ pc'[r] = "Await") =>
                 /\ Sent(r)' = Append(Sent(r), idx[r])
                 /\ \A j \in DOMAIN Sent(r) : Sent(r)[j] < idx[r]]_vars

\* a failed call at index 0 was followed by an entry for index 1
C7_Witness ==
    \E r \in Requests :
        /\ Len(resps[r]) = 2
        /\ resps[r][1].net = "badbody"
        /\ IsMatch(resps[r][2])
        /\ Len(results[r]) = 1
        /\ Sent(r) = << 0, 1 >>

\* C8 as stated: the time is exactly five characters, two digits of minutes,
\* a colon, two digits of seconds.
IsDigit(c) == \E d \in 0..9 : c = Digit(d)

RECURSIVE DecValue(_)
DecValue(str) ==
    IF Len(str) = 0 THEN 0
    ELSE 10 * DecValue(SubSeq(str, 1, Len(str) - 1))
         + (CHOOSE d \in 0..9 : Digit(d) = SubSeq(str, Len(str), Len(str)))

AllDigits(str) == \A j \in 1..Len(str) : IsDigit(SubSeq(str, j, j))

\* str reads "<minutes>:<two digits of seconds>", the minutes in mlen digits
ReadsAs(str, mlen, mm, ss) ==
    /\ Len(str) = mlen + 3
    /\ AllDigits(SubSeq(str, 1, mlen))
    /\ SubSeq(str, mlen + 1, mlen + 1) = ":"
    /\ AllDigits(SubSeq(str, mlen + 2, mlen + 3))
    /\ DecValue(SubSeq(str, 1, mlen)) = mm
    /\ DecValue(SubSeq(str, mlen + 2, mlen + 3)) = ss

C8_TwoDigitMinutes ==
    tsOut # "" =>
        LET total == tsArgs[1] * tsArgs[2]
        IN  ReadsAs(tsOut, 2, total \div 60, total % 60)

\* C8, amended: minutes = (i*w) div 60 without an hours field, zero-padded to
\* at least two digits (two digits exactly when below 100, otherwise as many
\* as the number has), seconds = (i*w) mod 60 in two digits; index 5 with
\* window 30 gives "02:30" and index 0 gives "00:00".
C8_MinutesAtLeastTwoDigits ==
    tsOut # "" =>
        LET total == tsArgs[1] * tsArgs[2]
            mm == total \div 60
            mlen == IF mm < 100 THEN 2 ELSE Len(tsOut) - 3
        IN  /\ ReadsAs(tsOut, mlen, mm, total % 60)
            /\ mm >= 100 => SubSeq(tsOut, 1, 1) # "0"
            /\ tsArgs = << 5, 30 >> => tsOut = "02:30"
            /\ tsArgs[1] = 0 => tsOut = "00:00"

C8_Witness ==
    /\ tsArgs = << 5, 30 >>
    /\ tsOut = "02:30"

\* C9: a request with an empty or short locator, or arriving without a
\* configured credential, fails at once: no temporary directory, no download,
\* conversion, split or recognition call; the locator is checked first.
ShortLocator(u) == Len(u) < 8

C9_RejectedImmediately ==
    \A r \in Requests :
        (pc[r] # "Idle" /\ (ShortLocator(url[r]) \/ ~Truthy(AUDD_API_TOKEN))) =>
            /\ pc[r] \in {"Created", "Failed"}
            /\ tmp[r] = "none"
            /\ calls[r] = <<>>
            /\ returned[r] = <<>>
            /\ pc[r] = "Failed" =>
                   detail[r] = IF ShortLocator(url[r]) THEN "Invalid URL"
                               ELSE "Missing AUDD_API_TOKEN"

C9_Witness ==
    \E r \in Requests :
        /\ pc[r] = "Failed"
        /\ url[r] = "http://"
        /\ ~Truthy(AUDD_API_TOKEN)
        /\ detail[r] = "Invalid URL"
        /\ tmp[r] = "none"

\* C10 as stated: a malformed locator and a missing credential both give a
\* 4xx status; download, conversion and split failures give a 5xx status.
DeriveFailed(r) ==
    /\ pc[r] = "Failed"
    /\ calls[r] # <<>>
    /\ Sent(r) = <<>>

C10_ConfigErrorIs4xx ==
    \A r \in Requests :
        /\ (pc[r] = "Failed" /\ calls[r] = <<>>) => status[r] \in 400..499
        /\ DeriveFailed(r) => status[r] \in 500..599

\* C10, amended: a malformed locator gives a 4xx status (400); a missing
\* credential gives a 5xx status (500); download, conversion and split
\* failures give a 5xx status (502 for the download, 500 otherwise).
C10_StatusByKind ==
    \A r \in Requests :
        /\ (pc[r] = "Failed" /\ ShortLocator(url[r])) => status[r] = 400
        /\ (pc[r] = "Failed" /\ ~ShortLocator(url[r]) /\ ~Truthy(AUDD_API_TOKEN)) =>
               status[r] = 500
        /\ DeriveFailed(r) =>
               /\ status[r] \in 500..599
               /\ status[r] = IF detail[r] = "Download failed" THEN 502 ELSE 500

C10_Witness ==
    \E r \in Requests :
        /\ pc[r] = "Failed"
        /\ url[r] = "http://a"
        /\ AUDD_API_TOKEN = Str("")
        /\ status[r] = 500

\* C11: a request that created its temporary directory has released it when it
\* ends, whichever way it ends (returned, failed while deriving, or failed in
\* the loop); the directory exists only while the request is under way.
CreatedTmp(r) == \E k \in DOMAIN calls[r] : calls[r][k].op = "mkdtemp"

Ended(r) == pc[r] \in {"Completed", "Failed"}

C11_TmpReleasedOnEveryExit ==
    \A r \in Requests :
        /\ (Ended(r) /\ CreatedTmp(r)) => tmp[r] = "released"
        /\ tmp[r] = "exists" => (CreatedTmp(r) /\ ~Ended(r))
        /\ ~CreatedTmp(r) => tmp[r] = "none"

\* an exception in the loop, after two segments, released the directory
C11_Witness ==
    \E r \in Requests :
        /\ pc[r] = "Failed"
        /\ detail[r] = "Internal Server Error"
        /\ Len(resps[r]) = 2
        /\ tmp[r] = "released"

\* C12: requests running concurrently share no mutable state: a step of one
\* request changes nothing of the other, and each request's list (and dedup
\* state) is the one the loop produces alone on that request's own responses.
Local(r) ==
    << pc[r], url[r], tmp[r], segments[r], segs[r], idx[r], results[r],
       last_title[r], calls[r], resps[r], status[r], detail[r], returned[r] >>

C12_RequestsIndependent ==
    [][\A r \in Requests :
          LET alone == Alone(resps'[r], Len(resps'[r]), SEGMENT_SECONDS)
          IN  /\ \A q \in Requests \ {r} :
                     Local(r)' # Local(r) => Local(q)' = Local(q)
              /\ Running(r)' =>
                     /\ results'[r] = alone.results
                     /\ last_title'[r] = alone.last_title
              /\ pc'[r] = "Completed" => returned'[r] = ReturnValue(alone.results)]_vars

\* both requests are in the loop with different dedup states, one has emitted
C12_Witness ==
    /\ pc["r1"] = "Await"
    /\ pc["r2"] = "Await"
    /\ last_title["r1"] = Str("a - b - c")
    /\ last_title["r2"] = Str("d - e")
    /\ tmp["r1"] = "exists"
    /\ tmp["r2"] = "exists"

\* C13: in the list being built and in every list returned, the entries are in
\* strictly increasing segment-index order (so their times, index * window,
\* strictly increase) and no two adjacent entries have the same title.
TimeValue(t) ==
    60 * DecValue(SubSeq(t, 1, Len(t) - 3)) + DecValue(SubSeq(t, Len(t) - 1, Len(t)))

IndexOf(entry) == TimeValue(entry.time) \div SEGMENT_SECONDS

Ordered(es) ==
    \A j \in 1..(Len(es) - 1) :
        /\ IndexOf(es[j]) < IndexOf(es[j + 1])
        /\ TimeValue(es[j].time) < TimeValue(es[j + 1].time)
        /\ es[j].track # es[j + 1].track

C13_OrderedNoAdjacentRepeat ==
    \A r \in Requests :
        /\ Ordered(results[r])
        /\ Ordered(returned[r])
        /\ \A j \in DOMAIN results[r] :
               /\ TimeValue(results[r][j].time) = IndexOf(results[r][j]) * SEGMENT_SECONDS
               /\ IndexOf(results[r][j]) < Len(resps[r])
               /\ IsMatch(resps[r][IndexOf(results[r][j]) + 1])
               /\ TitleOf(resps[r][IndexOf(results[r][j]) + 1]) = results[r][j].track

\* three entries returned, the last two at 50:00 and 150:00
C13_Witness ==
    \E r \in Requests :
        /\ pc[r] = "Completed"
        /\ SEGMENT_SECONDS = 3000
        /\ Len(returned[r]) = 3
        /\ Times(returned[r]) = << "00:00", "50:00", "150:00" >>

\* C14: the list is a function of the responses, the window and the cap alone:
\* two runs (here two requests of one process, which share window and cap)
\* that have received the same sequence of responses have built the same list,
\* and once completed have returned the same list.
C14_SameResponsesSameList ==
    \A r, q \in Requests :
        resps[r] = resps[q] =>
            /\ (Running(r) /\ Running(q)) =>
                   /\ results[r] = results[q]
                   /\ last_title[r] = last_title[q]
            /\ (pc[r] = "Completed" /\ pc[q] = "Completed") => returned[r] = returned[q]

\* two completed runs on the same two responses, with a linked entry
C14_Witness ==
    /\ pc["r1"] = "Completed"
    /\ pc["r2"] = "Completed"
    /\ resps["r1"] = << RespB, RespA2 >>
    /\ resps["r2"] = resps["r1"]
    /\ Len(returned["r2"]) = 2
    /\ returned["r2"][2].spotify = Str("sp:abc")

\* C15: recognition calls go out one at a time in increasing index order: the
\* segments sent so far are 0, 1, .., k-1 with none repeated, at most one call
\* is unanswered, and a call is unanswered exactly while the request waits for
\* it; the call for the next index goes out only after the previous answer was
\* handled.
InFlight(r) == Len(Sent(r)) - Len(resps[r])

C15_SequentialCalls ==
    \A r \in Requests :
        /\ Sent(r) = [j \in 1..Len(Sent(r)) |-> j - 1]
        /\ InFlight(r) \in {0, 1}
        /\ InFlight(r) = 1 <=> pc[r] = "Await"
        /\ Running(r) => idx[r] = Len(resps[r])
        /\ pc[r] = "Await" => Sent(r)[Len(Sent(r))] = idx[r]

\* the third call is in flight, the first two have been answered
C15_Witness ==
    \E r \in Requests :
        /\ pc[r] = "Await"
        /\ Sent(r) = << 0, 1, 2 >>
        /\ Len(resps[r]) = 2

\* C16: a response whose match payload is absent, or whose match payload lacks
\* (or has an empty) artist or title, adds no entry and leaves last_title and
\* the list as they were; the loop goes on with the next index.
NoUsableMatch(resp) ==
    /\ resp.net = "json"
    /\ HasGet(resp.payload)
    /\ LET result == Get(resp.payload, "result", None)
       IN  \/ result.k = "null"
           \/ /\ HasGet(result)
              /\ \/ ~Truthy(Get(result, "artist", None))
                 \/ ~Truthy(Get(result, "title", None))

C16_PartialMatchIsUnmatched ==
    [][\A r \in Requests :
          (pc[r] = "Await" /\ Len(resps'[r]) = Len(resps[r]) + 1
              /\ NoUsableMatch(resps'[r][Len(resps'[r])])) =>
              /\ results'[r] = results[r]
              /\ last_title'[r] = last_title[r]
              /\ pc'[r] = "Classify"
              /\ idx'[r] = idx[r] + 1]_vars

\* after a match, a result with an empty title and one without artist left
\* the list and last_title alone
C16_Witness ==
    \E r \in Requests :
        /\ resps[r] = << RespA, Json(Obj([result |-> ResNoTitle])),
                         Json(Obj([result |-> ResNoArtist])) >>
        /\ pc[r] = "Classify"
        /\ Len(results[r]) = 1
        /\ last_title[r] = Str("a - b - c")

\* C17: for a response with both artist and title, absent or malformed link
\* metadata never fails the request: the loop goes on, and a new title is
\* added with its time and with the link when it is a string, None otherwise.
LinkOrNone(resp) ==
    LET link == SpotifyUrl(Get(resp.payload, "result", None))
    IN  IF link.k = "str" THEN link ELSE None

C17_MalformedLinkDegrades ==
    [][\A r \in Requests :
          (pc[r] = "Await" /\ Len(resps'[r]) = Len(resps[r]) + 1
              /\ IsMatch(resps'[r][Len(resps'[r])])) =>
              LET resp == resps'[r][Len(resps'[r])]
              IN  /\ pc'[r] = "Classify"
                  /\ Str(TitleOf(resp)) # last_title[r] =>
                         results'[r] =
                             Append(results[r],
                                    [time |-> ts_from_idx(idx[r], SEGMENT_SECONDS),
                                     track |-> TitleOf(resp),
                                     spotify |-> LinkOrNone(resp)])]_vars

\* C18: the cap only cuts the tail: a completed request has returned what the
\* loop gives on its responses, and for every smaller cap k the list returned
\* for the first k of the same responses, unless it is the sentinel, is a
\* prefix of the list returned (same titles, times and links).
IsPrefix(s, t) == Len(s) <= Len(t) /\ s = SubSeq(t, 1, Len(s))

ReturnedWithCap(rs, k) == ReturnValue(Alone(rs, k, SEGMENT_SECONDS).results)

C18_CapCutsTail ==
    \A r \in Requests :
        pc[r] = "Completed" =>
            /\ returned[r] = ReturnedWithCap(resps[r], Len(resps[r]))
            /\ \A k \in 1..Len(resps[r]) :
                   ReturnedWithCap(resps[r], k) # << Sentinel >> =>
                       IsPrefix(ReturnedWithCap(resps[r], k), returned[r])

\* cap 2 gives one entry, cap 4 on the same responses gives three
C18_Witness ==
    \E r \in Requests :
        /\ pc[r] = "Completed"
        /\ resps[r] = << RespA, NoMatchResp, RespB, RespA2 >>
        /\ Len(ReturnedWithCap(resps[r], 2)) = 1
        /\ ReturnedWithCap(resps[r], 2) # << Sentinel >>
        /\ Len(returned[r]) = 3
        /\ ReturnedWithCap(resps[r], 1) # << Sentinel >>

====
